---- MODULE Spec2Model ----
(***************************************************************************)
(* Model of the Peasant backend agent's request pipeline                   *)
(* (src/backend/peasant_workers/backend_agent.py): process_request, the    *)
(* seven workflow nodes, the routing of create_workflow, the metrics and   *)
(* the status query; and of the King overseer's delegation ledger and      *)
(* strategy parsing (src/backend/kings_court/overseer.py).                 *)
(*                                                                         *)
(* Specifications: Spec (concurrent calls of process_request), SpecSingle  *)
(* (one call, any request), SpecSingleFair (SpecSingle with the event      *)
(* loop's fairness), SpecSanitizer (_sanitize_data on its own),            *)
(* SpecDelegation (delegate_task and get_delegation_history), SpecStrategy *)
(* (strategize on any response of the model) and SpecOverseer (every       *)
(* operation of the overseer, coordinate_multi_agent_task included).       *)
(*                                                                         *)
(* Python values are records [t, n, s, m]: t is the type tag, n an integer *)
(* payload, s a string as a sequence of one-character strings, m a nested  *)
(* mapping.  Python's None is the empty sequence, Some(x) is <<x>>.        *)
(* Mappings (dict) are TLA+ functions from keys to values.                 *)
(***************************************************************************)
EXTENDS Integers, Sequences, FiniteSets, TLC

\* ------------------------------------------------------------------ bounds
\* Number of process_request calls in one behaviour of the concurrent
\* specification.
MaxRuns == 2
\* Number of process_request executions that may be in flight together.
NumSlots == 2

\* ------------------------------------------------------------ python values
EmptyMap == << >>
None == << >>
Some(x) == <<x>>

IntV(i) == [t |-> "int", n |-> i, s |-> << >>, m |-> EmptyMap]
StrV(chars) == [t |-> "str", n |-> 0, s |-> chars, m |-> EmptyMap]
\* the string 'x' * k (used for payloads larger than the size limit)
PadV(k) == [t |-> "pad", n |-> k, s |-> << >>, m |-> EmptyMap]
\* a python set object: a legal Dict[str, Any] value that json cannot encode
SetV == [t |-> "set", n |-> 0, s |-> << >>, m |-> EmptyMap]
FloatV(chars) == [t |-> "float", n |-> 0, s |-> chars, m |-> EmptyMap]
DictV(map) == [t |-> "dict", n |-> 0, s |-> << >>, m |-> map]

Digits == {"0", "1", "2", "3", "4", "5", "6", "7", "8", "9"}

\* str.replace(pat, ''): leftmost non-overlapping occurrences are removed
RECURSIVE Remove(_, _)
Remove(str, pat) ==
    IF Len(str) < Len(pat) \/ Len(pat) = 0 THEN str
    ELSE IF SubSeq(str, 1, Len(pat)) = pat
         THEN Remove(SubSeq(str, Len(pat) + 1, Len(str)), pat)
         ELSE <<Head(str)>> \o Remove(Tail(str), pat)

ScriptOpen == <<"<", "s", "c", "r", "i", "p", "t", ">">>
ScriptClose == <<"<", "/", "s", "c", "r", "i", "p", "t", ">">>
DropTable == <<"D", "R", "O", "P", " ", "T", "A", "B", "L", "E">>
DeleteFrom == <<"D", "E", "L", "E", "T", "E", " ", "F", "R", "O", "M">>

SanitizeString(str) ==
    Remove(Remove(Remove(Remove(str, ScriptOpen), ScriptClose), DropTable), DeleteFrom)

RECURSIVE _sanitize_data(_)
_sanitize_data(data) ==
    [k \in DOMAIN data |->
        IF data[k].t = "str" THEN StrV(SanitizeString(data[k].s))
        ELSE IF data[k].t = "dict" THEN DictV(_sanitize_data(data[k].m))
        ELSE data[k]]

\* ------------------------------------------------------------- json.dumps
RECURSIVE SumOver(_, _)
SumOver(f, keys) ==
    IF keys = {} THEN 0
    ELSE LET k == CHOOSE x \in keys : TRUE
         IN f[k] + SumOver(f, keys \ {k})

RECURSIVE DigitCount(_)
DigitCount(i) == IF i < 0 THEN 1 + DigitCount(-i)
                 ELSE IF i < 10 THEN 1 ELSE 1 + DigitCount(i \div 10)

\* json.dumps raises TypeError on a set, anywhere in the payload
RECURSIVE JsonSerializable(_)
JsonSerializable(data) ==
    \A k \in DOMAIN data :
        /\ data[k].t # "set"
        /\ data[k].t = "dict" => JsonSerializable(data[k].m)

\* every key of the model is one character long
KeyLen(k) == 1

\* len(json.dumps(data)) with the default separators ', ' and ': '
RECURSIVE JsonLen(_)
JsonLen(data) ==
    LET ValLen(v) == CASE v.t = "int" -> DigitCount(v.n)
                       [] v.t = "str" -> Len(v.s) + 2
                       [] v.t = "float" -> Len(v.s)
                       [] v.t = "pad" -> v.n + 2
                       [] v.t = "dict" -> JsonLen(v.m)
                       [] OTHER -> 0
        item == [k \in DOMAIN data |-> KeyLen(k) + 2 + 2 + ValLen(data[k])]
        count == Cardinality(DOMAIN data)
    IN 2 + SumOver(item, DOMAIN data) + (IF count > 0 THEN 2 * (count - 1) ELSE 0)

SizeLimit == 1024 * 1024

\* ------------------------------------------------------------ text values
\* A message is the sequence of the fragments an f-string or a '+' joins;
\* detail is itself a sequence of fragments.
Msg(prefix, detail) == <<prefix>> \o detail

NoDataProvided == "No data provided"
NotJsonSerializable == "Object of type set is not JSON serializable"
InvalidLiteral == "invalid literal"
NoneHasNoGet == "'NoneType' object has no attribute 'get'"
NoAttribute(name) == <<"'PeasantBackendAgent' object has no attribute ", name>>
DriverFailure == "workflow driver failure"

\* ---------------------------------------------------------------- requests
\* ProcessingRequest (src lines 28-37).  data is None when data_none holds.
\* priority, requester, created_at and deadline are never read by a branch.
Request(id, kind, none, data, md) ==
    [request_id |-> id, request_type |-> kind, data_none |-> none,
     data |-> data, metadata |-> md]

RequestIds == {"r1", "r2"}
SupportedTypes == {"data_analysis", "data_transformation", "computation", "integration"}
RequestTypes == SupportedTypes \cup {"custom"}

\* a python set given as a metadata value
SetObject == "set()"

MetaGet(md, key, default) == IF key \in DOMAIN md THEN md[key] ELSE default

NumericPayload == [k \in {"a", "b"} |-> IF k = "a" THEN IntV(4) ELSE IntV(16)]
OnePayload(v) == [k \in {"a"} |-> v]
NestedPayload == OnePayload(DictV([k \in {"b"} |-> StrV(DropTable \o <<"1">>)]))

\* [none, map]: the values request.data takes in the model
Payloads ==
    { [none |-> TRUE, map |-> EmptyMap],
      [none |-> FALSE, map |-> EmptyMap],
      [none |-> FALSE, map |-> NumericPayload],
      [none |-> FALSE, map |-> OnePayload(StrV(<<"1", "2">>))],
      [none |-> FALSE, map |-> OnePayload(StrV(<<"1", ".", "2", ".", "3">>))],
      [none |-> FALSE, map |-> OnePayload(StrV(ScriptOpen \o <<"7">>))],
      [none |-> FALSE, map |-> OnePayload(SetV)],
      [none |-> FALSE, map |-> OnePayload(PadV(SizeLimit))],
      [none |-> FALSE, map |-> NestedPayload] }

OneMeta(key, v) == [k \in {key} |-> v]

Metadatas ==
    { EmptyMap,
      OneMeta("analysis_type", "basic"),
      OneMeta("analysis_type", "statistical"),
      OneMeta("analysis_type", "trend"),
      OneMeta("transformation_type", "normalize"),
      OneMeta("transformation_type", "aggregate"),
      OneMeta("transformation_type", "filter"),
      OneMeta("computation_type", "basic"),
      OneMeta("computation_type", "mathematical"),
      OneMeta("computation_type", "optimization"),
      OneMeta("integration_type", SetObject),
      OneMeta("format", "summary"),
      OneMeta("format", "json"),
      [k \in {"integration_type", "format"} |->
          IF k = "format" THEN "summary" ELSE SetObject] }

\* every request of the single-call specification
FullPool ==
    { Request(id, kind, p.none, p.map, md) :
        id \in RequestIds, kind \in RequestTypes, p \in Payloads, md \in Metadatas }

\* the requests of the concurrent specification: a run that completes, a
\* run that fails validation, a run whose storage fails, each under an id
\* that another request shares, and a request without payload
ConcPool ==
    { Request("r1", "custom", FALSE, NumericPayload, EmptyMap),
      Request("r1", "custom", FALSE, EmptyMap, EmptyMap),
      Request("r2", "integration", FALSE, NumericPayload,
              OneMeta("integration_type", SetObject)),
      Request("r2", "custom", TRUE, EmptyMap, EmptyMap) }

NoRequest == Request("", "", TRUE, EmptyMap, EmptyMap)

\* ----------------------------------------------------------- workflow state
Stages == <<"validation", "preprocessing", "processing", "postprocessing",
            "storage", "notification">>

\* the state dict of process_request (src lines 143-154); notification_results
\* is the key notify_completion adds (None while the key is absent)
InitialState(request) ==
    [original_data |-> request.data,
     processed_data |-> None,
     validation_results |-> None,
     processing_results |-> None,
     storage_results |-> None,
     notification_results |-> None,
     error |-> None,
     warnings |-> << >>,
     stages_completed |-> << >>,
     current_stage |-> "validation"]

BlankState == InitialState(NoRequest)

\* ---------------------------------------------------------- validate_input
TypeWarning(kind) == <<"Request type '", kind, "' may not be fully supported">>
SizeWarning == <<"Large data payload detected, processing may be slower">>

ValidationWarnings(request) ==
    (IF request.request_type \notin SupportedTypes
     THEN <<TypeWarning(request.request_type)>> ELSE << >>)
    \o (IF JsonLen(request.data) > SizeLimit THEN <<SizeWarning>> ELSE << >>)

\* the bug of testing the payload for None instead of for emptiness
ValidationResultsNoneOnly(request) ==
    [is_valid |-> ~request.data_none,
     errors |-> IF request.data_none THEN <<NoDataProvided>> ELSE << >>,
     warnings |-> ValidationWarnings(request),
     sanitized_data |-> IF request.data # EmptyMap
                        THEN _sanitize_data(request.data) ELSE EmptyMap]

\* the bug of stopping at the first rule that finds an error
ValidationResultsShortCircuit(request) ==
    [is_valid |-> request.data # EmptyMap,
     errors |-> IF request.data = EmptyMap THEN <<NoDataProvided>> ELSE << >>,
     warnings |-> IF request.data = EmptyMap THEN << >>
                  ELSE ValidationWarnings(request),
     sanitized_data |-> IF request.data # EmptyMap
                        THEN _sanitize_data(request.data) ELSE EmptyMap]

ValidationResults(request) ==
    [is_valid |-> request.data # EmptyMap,
     errors |-> IF request.data = EmptyMap THEN <<NoDataProvided>> ELSE << >>,
     warnings |-> ValidationWarnings(request),
     sanitized_data |-> IF request.data # EmptyMap
                        THEN _sanitize_data(request.data) ELSE EmptyMap]

\* ', '.join(errors) of the only list of errors the stage builds
JoinErrors(errors) == IF errors = << >> THEN "" ELSE errors[1]

validate_input(st, request) ==
    LET st1 == [st EXCEPT !.current_stage = "validation"]
        vr == ValidationResults(request)
    IN IF ~JsonSerializable(request.data)
       THEN \* json.dumps raises inside the try: nothing is stored or appended
            [st1 EXCEPT !.error = Some(Msg("Validation error: ", <<NotJsonSerializable>>))]
       ELSE [st1 EXCEPT
               !.validation_results = Some(vr),
               !.stages_completed = Append(@, "validation"),
               !.error = IF vr.is_valid THEN @
                         ELSE Some(Msg("Validation failed: ", <<JoinErrors(vr.errors)>>))]

\* ---------------------------------------------------------- preprocess_data
IsDigitString(chars) ==
    /\ Len(chars) > 0
    /\ \A i \in 1..Len(chars) : chars[i] \in Digits

Without(chars, c) == SelectSeq(chars, LAMBDA x : x # c)
Contains(chars, c) == \E i \in 1..Len(chars) : chars[i] = c
CountOf(chars, c) == Len(SelectSeq(chars, LAMBDA x : x = c))

\* the test of _preprocess_for_analysis: value.replace('.', '').replace('-', '').isdigit()
LooksNumeric(v) == v.t = "str" /\ IsDigitString(Without(Without(v.s, "."), "-"))

\* int(value) / float(value) accept one leading '-' and, for float, one '.'
LiteralParses(chars) ==
    /\ CountOf(chars, ".") <= 1
    /\ CountOf(chars, "-") <= 1
    /\ Contains(chars, "-") => chars[1] = "-"

DigitValue(c) == CHOOSE d \in 0..9 : <<"0", "1", "2", "3", "4", "5", "6", "7", "8", "9">>[d + 1] = c

RECURSIVE DecimalValue(_)
DecimalValue(chars) ==
    IF chars = << >> THEN 0
    ELSE 10 * DecimalValue(SubSeq(chars, 1, Len(chars) - 1)) + DigitValue(chars[Len(chars)])

IntValue(chars) == IF chars[1] = "-" THEN 0 - DecimalValue(Tail(chars)) ELSE DecimalValue(chars)

\* a float keeps its literal: the pool holds no well-formed float literal,
\* so no arithmetic on floats is ever needed
Coerce(v) == IF Contains(v.s, ".") THEN FloatV(v.s) ELSE IntV(IntValue(v.s))

_preprocess_for_analysis(data) ==
    [raised |-> \E k \in DOMAIN data : LooksNumeric(data[k]) /\ ~LiteralParses(data[k].s),
     value |-> [k \in DOMAIN data |->
                  IF LooksNumeric(data[k]) /\ LiteralParses(data[k].s)
                  THEN Coerce(data[k]) ELSE data[k]]]

preprocess_data(st, request) ==
    LET st1 == [st EXCEPT !.current_stage = "preprocessing"]
        sanitized == st.validation_results[1].sanitized_data
        pre == IF request.request_type = "data_analysis"
               THEN _preprocess_for_analysis(sanitized)
               ELSE [raised |-> FALSE, value |-> sanitized]
    IN IF st.validation_results = None
       THEN [st1 EXCEPT !.error = Some(Msg("Preprocessing error: ", <<"'NoneType' object is not subscriptable">>))]
       ELSE IF pre.raised
       THEN [st1 EXCEPT !.error = Some(Msg("Preprocessing error: ", <<InvalidLiteral>>))]
       ELSE [st1 EXCEPT !.processed_data = Some(pre.value),
                        !.stages_completed = Append(@, "preprocessing")]

\* ------------------------------------------------------------- process_data
IsNumber(v) == v.t \in {"int", "float"}
NumericKeys(data) == {k \in DOMAIN data : IsNumber(data[k])}
NumericSum(data) == SumOver([k \in DOMAIN data |-> data[k].n], NumericKeys(data))

\* type(value).__name__
TypeName(v) == CASE v.t = "int" -> "int"
                 [] v.t = "float" -> "float"
                 [] v.t = "dict" -> "dict"
                 [] v.t = "set" -> "set"
                 [] OTHER -> "str"

\* a quotient is kept as the pair <<numerator, denominator>>
_basic_analysis(data) ==
    LET analysis == [total_fields |-> Cardinality(DOMAIN data),
                     data_types |-> [k \in DOMAIN data |-> TypeName(data[k])],
                     summary |-> "Basic analysis completed"]
        count == Cardinality(NumericKeys(data))
    IN IF count > 0
       THEN [total_fields |-> analysis.total_fields,
             data_types |-> analysis.data_types,
             summary |-> analysis.summary,
             numeric_summary |-> [count |-> count, sum |-> NumericSum(data),
                                  average |-> <<NumericSum(data), count>>]]
       ELSE analysis

\* variance and std_dev are floating-point values no branch reads
_statistical_analysis(data) ==
    LET keys == NumericKeys(data)
        count == Cardinality(keys)
    IN IF count = 0
       THEN [error |-> <<"No numeric data found for statistical analysis">>]
       ELSE [statistical_analysis |->
               [count |-> count, sum |-> NumericSum(data),
                mean |-> <<NumericSum(data), count>>,
                min |-> CHOOSE x \in {data[k].n : k \in keys} :
                            \A y \in {data[k].n : k \in keys} : x <= y,
                max |-> CHOOSE x \in {data[k].n : k \in keys} :
                            \A y \in {data[k].n : k \in keys} : x >= y]]

_trend_analysis(data) ==
    [trend_analysis |-> "Trend analysis completed",
     data_points |-> Cardinality(DOMAIN data),
     trend_direction |-> "stable"]

\* a stage outcome: the exception raised (None if none) and the value returned
Returned(v) == [exc |-> None, value |-> v]
Raised(e) == [exc |-> Some(e), value |-> EmptyMap]

_perform_data_analysis(data, metadata) ==
    LET analysis_type == MetaGet(metadata, "analysis_type", "basic")
    IN IF analysis_type = "statistical" THEN Returned(_statistical_analysis(data))
       ELSE IF analysis_type = "trend" THEN Returned(_trend_analysis(data))
       ELSE Returned(_basic_analysis(data))

\* len(str(data)): for the values of the model repr and json have one length
ReprLen(data) == JsonLen(data)

\* _normalize_data, _aggregate_data and _filter_data are not defined by the
\* class: looking them up raises AttributeError
_perform_data_transformation(data, metadata) ==
    LET transformation_type == MetaGet(metadata, "transformation_type", "standard")
    IN IF transformation_type = "normalize" THEN Raised(NoAttribute("'_normalize_data'"))
       ELSE IF transformation_type = "aggregate" THEN Raised(NoAttribute("'_aggregate_data'"))
       ELSE IF transformation_type = "filter" THEN Raised(NoAttribute("'_filter_data'"))
       ELSE Returned([status |-> "transformed",
                      original_size |-> ReprLen(data),
                      transformed_size |-> ReprLen(data),
                      data |-> data])

\* _mathematical_computation, _optimization_computation and
\* _basic_computation are not defined by the class either
_perform_computation(data, metadata) ==
    LET computation_type == MetaGet(metadata, "computation_type", "basic")
    IN IF computation_type = "mathematical" THEN Raised(NoAttribute("'_mathematical_computation'"))
       ELSE IF computation_type = "optimization" THEN Raised(NoAttribute("'_optimization_computation'"))
       ELSE Raised(NoAttribute("'_basic_computation'"))

_perform_integration(data, metadata) ==
    Returned([status |-> "integrated",
              integration_type |-> MetaGet(metadata, "integration_type", "api"),
              data_sent |-> ReprLen(data)])

ProcessingOutcome(request, data) ==
    IF request.request_type = "data_analysis"
    THEN _perform_data_analysis(data, request.metadata)
    ELSE IF request.request_type = "data_transformation"
    THEN _perform_data_transformation(data, request.metadata)
    ELSE IF request.request_type = "computation"
    THEN _perform_computation(data, request.metadata)
    ELSE IF request.request_type = "integration"
    THEN _perform_integration(data, request.metadata)
    ELSE Returned([status |-> "completed", data |-> data])

process_data(st, request) ==
    LET st1 == [st EXCEPT !.current_stage = "processing"]
        out == ProcessingOutcome(request, st.processed_data[1])
    IN IF st.processed_data = None
       THEN [st1 EXCEPT !.error = Some(Msg("Processing error: ", <<"'NoneType' object is not subscriptable">>))]
       ELSE IF out.exc # None
       THEN [st1 EXCEPT !.error = Some(Msg("Processing error: ", out.exc[1]))]
       ELSE [st1 EXCEPT !.processing_results = Some(out.value),
                        !.stages_completed = Append(@, "processing")]

\* --------------------------------------------------------- postprocess_data
\* The metadata of postprocess_data stores the list objects of the state
\* themselves (state['stages_completed'], state['warnings']), not copies: the
\* model keeps the reference and reads through it when the mapping is read.
StagesRef == <<"@state.stages_completed">>
WarningsRef == <<<<"@state.warnings">>>>

\* the score in tenths (0.8 is 8): 0 with an 'error' key, else 0.8 less 0.1
\* for each entry of a 'warnings' key of the results, clamped to [0, 1]
_calculate_data_quality_score(results) ==
    LET Clamp(x) == IF x < 0 THEN 0 ELSE IF x > 10 THEN 10 ELSE x
    IN IF "error" \in DOMAIN results THEN 0
       ELSE IF "warnings" \in DOMAIN results /\ results.warnings # << >>
       THEN Clamp(8 - Len(results.warnings))
       ELSE Clamp(8)

_format_results(results, format_type) ==
    IF format_type = "json" THEN results
    ELSE IF format_type = "summary"
    THEN [summary |-> "Processing completed successfully",
          key_metrics |-> results.metadata,
          result_count |-> Cardinality(DOMAIN results.results)]
    ELSE results

postprocess_data(st, request) ==
    LET st1 == [st EXCEPT !.current_stage = "postprocessing"]
        processing_results == st.processing_results[1]
        postprocessed_results ==
            [request_id |-> request.request_id,
             request_type |-> request.request_type,
             results |-> processing_results,
             metadata |-> [processing_stages |-> StagesRef,
                           warnings |-> WarningsRef,
                           data_quality_score |->
                               _calculate_data_quality_score(processing_results)]]
        formatted == IF "format" \in DOMAIN request.metadata
                     THEN _format_results(postprocessed_results, request.metadata.format)
                     ELSE postprocessed_results
    IN IF st.processing_results = None
       THEN [st1 EXCEPT !.error = Some(Msg("Postprocessing error: ",
                                           <<"argument of type 'NoneType' is not iterable">>))]
       ELSE [st1 EXCEPT !.processing_results = Some(formatted),
                        !.stages_completed = Append(@, "postprocessing")]

\* ------------------------------------------------------------ store_results
\* json.dumps(processing_results): the payload passed json.dumps in
\* validate_input, the only other caller-supplied value the results can hold
\* is metadata['integration_type']
ResultsSerializable(processing_results) ==
    ~ /\ "results" \in DOMAIN processing_results
      /\ "integration_type" \in DOMAIN processing_results.results
      /\ processing_results.results.integration_type = SetObject

\* stored_at is a timestamp and size_bytes the length of a text that holds
\* one: neither is read again
store_results(st, request) ==
    LET st1 == [st EXCEPT !.current_stage = "storage"]
        storage_results == [storage_key |-> <<"results_", request.request_id>>,
                            retention_period |-> "30_days"]
    IN IF st.processing_results = None \/ ~ResultsSerializable(st.processing_results[1])
       THEN [st1 EXCEPT !.error = Some(Msg("Storage error: ", <<NotJsonSerializable>>))]
       ELSE [st1 EXCEPT !.storage_results = Some(storage_results),
                        !.stages_completed = Append(@, "storage")]

\* -------------------------------------------------------- notify_completion
\* the bug of recording the stage before the work that can fail
notify_completion_records_first(st, request) ==
    LET st1 == [st EXCEPT !.current_stage = "notification",
                          !.stages_completed = Append(@, "notification")]
    IN IF st.storage_results = None
       THEN [st1 EXCEPT !.warnings = Append(@, Msg("Notification error: ", <<NoneHasNoGet>>))]
       ELSE [st1 EXCEPT
               !.notification_results =
                   Some([request_id |-> request.request_id,
                         status |-> "completed",
                         results_available |-> TRUE,
                         storage_key |-> st.storage_results[1].storage_key])]

\* state.get('storage_results', {}) is None while storage has stored nothing
\* (the key exists from the start), and None has no .get
notify_completion(st, request) ==
    LET st1 == [st EXCEPT !.current_stage = "notification"]
    IN IF st.storage_results = None
       THEN [st1 EXCEPT !.warnings = Append(@, Msg("Notification error: ", <<NoneHasNoGet>>))]
       ELSE [st1 EXCEPT
               !.notification_results =
                   Some([request_id |-> request.request_id,
                         status |-> "completed",
                         results_available |-> TRUE,
                         storage_key |-> st.storage_results[1].storage_key]),
               !.stages_completed = Append(@, "notification")]

\* ------------------------------------------------------------- handle_error
\* no branch of _attempt_error_recovery returns True
_attempt_error_recovery(st) == FALSE

handle_error(st, request) ==
    IF _attempt_error_recovery(st)
    THEN [st EXCEPT !.warnings = Append(@, <<"Error recovery attempted">>)]
    ELSE st

\* ----------------------------------------------------------------- routing
should_continue_processing(st) == IF st.error # None THEN "error" ELSE "continue"

Nodes == {"validate_input", "preprocess_data", "process_data", "postprocess_data",
          "store_results", "notify_completion", "handle_error"}
END == "END"

\* a graph whose storage node leads to END, and notify_completion to itself
NextNodeWithoutNotification(node, st) ==
    CASE node \in {"validate_input", "preprocess_data", "process_data", "postprocess_data"}
           /\ should_continue_processing(st) = "error" -> "handle_error"
      [] node = "validate_input" -> "preprocess_data"
      [] node = "preprocess_data" -> "process_data"
      [] node = "process_data" -> "postprocess_data"
      [] node = "postprocess_data" -> "store_results"
      [] node = "store_results" -> "END"
      [] node = "notify_completion" -> "notify_completion"
      [] node = "handle_error" -> "END"

\* the edges of create_workflow: four conditional edges, three plain ones
NextNode(node, st) ==
    CASE node = "validate_input" ->
           IF should_continue_processing(st) = "continue" THEN "preprocess_data" ELSE "handle_error"
      [] node = "preprocess_data" ->
           IF should_continue_processing(st) = "continue" THEN "process_data" ELSE "handle_error"
      [] node = "process_data" ->
           IF should_continue_processing(st) = "continue" THEN "postprocess_data" ELSE "handle_error"
      [] node = "postprocess_data" ->
           IF should_continue_processing(st) = "continue" THEN "store_results" ELSE "handle_error"
      [] node = "store_results" -> "notify_completion"
      [] node = "notify_completion" -> END
      [] node = "handle_error" -> END

EntryPoint == "validate_input"

\* ------------------------------------------------------------------- state
VARIABLES
    active_tasks,          \* request id -> the execution whose state dict is registered
    completed_tasks,       \* request id -> ProcessingResult
    performance_metrics,   \* total_processed, total_failed, queue_length
    exec,                  \* the process_request executions, by slot
    last,                  \* the call of process_request that ended last
    calls,                 \* calls of process_request made so far
    returned,              \* calls that returned a ProcessingResult
    submitted,             \* request ids registered by some call
    recorded,              \* the status of every result handed to the metrics
    statuses,              \* the status of every result returned, in order of return
    callers,               \* who calls: "concurrent" callers, a "single" call, the "court"
    payload,               \* the mapping a caller of _sanitize_data starts from
    sanitized,             \* the results of its successive applications
    delegation_history,    \* KingAIOverseer.delegation_history
    delegated,             \* the records delegate_task appended, in order
    held,                  \* a list some caller got from get_delegation_history
    active_strategies,     \* KingAIOverseer.active_strategies, in insertion order
    response,              \* the text crew.kickoff() returns to strategize
    answer                 \* how the overseer's last operation ended

agentVars == <<active_tasks, completed_tasks, performance_metrics, exec, last,
               calls, returned, submitted, recorded, statuses, callers>>
sanitizerVars == <<payload, sanitized>>
overseerVars == <<delegation_history, delegated, held, active_strategies,
                  response, answer>>

vars == <<agentVars, sanitizerVars, overseerVars>>

\* the requests callers may submit, the number of calls they make and the
\* number of executions in flight together
pool == IF callers = "single" THEN FullPool ELSE ConcPool
budget == IF callers = "single" THEN 1 ELSE MaxRuns
slots == IF callers = "single" THEN 1 ELSE NumSlots

MapPut(f, k, v) == [x \in DOMAIN f \cup {k} |-> IF x = k THEN v ELSE f[x]]
MapPop(f, k) == [x \in DOMAIN f \ {k} |-> f[x]]

\* average_processing_time is a mean of wall-clock durations; no branch reads it
InitialMetrics == [total_processed |-> 0, total_failed |-> 0, queue_length |-> 0]

ProcessingResult(id, status, result_data, stages, error_message, warnings) ==
    [request_id |-> id, status |-> status, result_data |-> result_data,
     stages_completed |-> stages, error_message |-> error_message,
     warnings |-> warnings]

NoResult == ProcessingResult("", "", EmptyMap, << >>, None, None)

\* pc is "idle", a node of the workflow (the node ainvoke runs next) or END
\* (every node has run, ainvoke is about to return).  trace lists the nodes
\* run so far; errAt is the position in trace of the node that set state.error
\* first and firstError the message it wrote.  shared tells that another
\* execution with the same request id was in flight at some moment since this
\* one registered.
IdleExec == [pc |-> "idle", request |-> NoRequest, st |-> BlankState,
             trace |-> << >>, errAt |-> 0, firstError |-> None, shared |-> FALSE]

NoCall == [outcome |-> "none", path |-> "none", request |-> NoRequest,
           result |-> NoResult, st |-> BlankState, trace |-> << >>, errAt |-> 0,
           firstError |-> None]

InFlight(s) == exec[s].pc # "idle"

InitShared ==
    /\ active_tasks = EmptyMap
    /\ completed_tasks = EmptyMap
    /\ performance_metrics = InitialMetrics
    /\ exec = [s \in 1..NumSlots |-> IdleExec]
    /\ last = NoCall
    /\ calls = 0
    /\ returned = 0
    /\ submitted = {}
    /\ recorded = << >>
    /\ statuses = << >>

\* no caller of _sanitize_data on its own
SanitizerIdle ==
    /\ payload = EmptyMap
    /\ sanitized = << >>

\* KingAIOverseer.__init__ (overseer.py lines 56-57); nothing held or answered
OverseerNew ==
    /\ delegation_history = << >>
    /\ delegated = << >>
    /\ held = None
    /\ active_strategies = << >>
    /\ answer = None

\* concurrent callers, a few requests
Init ==
    /\ InitShared
    /\ callers = "concurrent"
    /\ SanitizerIdle
    /\ OverseerNew
    /\ response = << >>

\* one call, any request
InitSingle ==
    /\ InitShared
    /\ callers = "single"
    /\ SanitizerIdle
    /\ OverseerNew
    /\ response = << >>

\* --------------------------------------------------------- process_request
\* request.data.copy() on None raises AttributeError before the try block:
\* nothing is registered and the caller gets the exception
CallRaises ==
    /\ calls < budget
    /\ \E s \in 1..slots : ~InFlight(s)
    /\ \E request \in pool :
        /\ request.data_none
        /\ calls' = calls + 1
        /\ last' = [NoCall EXCEPT !.outcome = "raised", !.path = "raise",
                                  !.request = request]
        /\ UNCHANGED <<active_tasks, completed_tasks, performance_metrics, exec,
                       returned, submitted, recorded, statuses, callers>>
        /\ UNCHANGED <<sanitizerVars, overseerVars>>

\* lines 139-161 up to the first suspension: build the state, register it
Call ==
    /\ calls < budget
    /\ \E request \in pool :
        /\ ~request.data_none
        /\ \E s \in 1..slots :
            /\ ~InFlight(s)
            /\ \A u \in 1..(s - 1) : InFlight(u)
            /\ LET SameId(u) == InFlight(u)
                                 /\ exec[u].request.request_id = request.request_id
               IN exec' = [u \in DOMAIN exec |->
                              IF u = s
                              THEN [pc |-> EntryPoint, request |-> request,
                                    st |-> InitialState(request),
                                    trace |-> << >>, errAt |-> 0,
                                    firstError |-> None,
                                    shared |-> \E v \in DOMAIN exec : SameId(v)]
                              ELSE IF SameId(u) THEN [exec[u] EXCEPT !.shared = TRUE]
                              ELSE exec[u]]
            /\ active_tasks' = MapPut(active_tasks, request.request_id, s)
        /\ calls' = calls + 1
        /\ submitted' = submitted \cup {request.request_id}
        /\ UNCHANGED <<completed_tasks, performance_metrics, last, returned,
                       recorded, statuses, callers>>
        /\ UNCHANGED <<sanitizerVars, overseerVars>>

\* a validation that writes the sanitized payload into the request
StepSanitizesInPlace(e, node, st2) ==
    [e EXCEPT !.st = st2,
              !.pc = NextNode(node, st2),
              !.trace = Append(@, node),
              !.errAt = IF e.st.error = None /\ st2.error # None
                        THEN Len(e.trace) + 1 ELSE @,
              !.firstError = IF e.st.error = None THEN st2.error ELSE @,
              !.request.data = IF st2.validation_results # None
                               THEN st2.validation_results[1].sanitized_data ELSE @]

\* one node of the workflow runs, then the edge out of it is taken
Step(e, node, st2) ==
    [e EXCEPT !.st = st2,
              !.pc = NextNode(node, st2),
              !.trace = Append(@, node),
              !.errAt = IF e.st.error = None /\ st2.error # None
                        THEN Len(e.trace) + 1 ELSE @,
              !.firstError = IF e.st.error = None THEN st2.error ELSE @]

RunNode(s, node, st2) ==
    /\ exec[s].pc = node
    /\ exec' = [exec EXCEPT ![s] = Step(@, node, st2)]
    /\ UNCHANGED <<active_tasks, completed_tasks, performance_metrics, last,
                   calls, returned, submitted, recorded, statuses, callers>>
    /\ UNCHANGED <<sanitizerVars, overseerVars>>

ValidateInput ==
    \E s \in 1..NumSlots :
        RunNode(s, "validate_input", validate_input(exec[s].st, exec[s].request))

PreprocessData ==
    \E s \in 1..NumSlots :
        RunNode(s, "preprocess_data", preprocess_data(exec[s].st, exec[s].request))

ProcessData ==
    \E s \in 1..NumSlots :
        RunNode(s, "process_data", process_data(exec[s].st, exec[s].request))

PostprocessData ==
    \E s \in 1..NumSlots :
        RunNode(s, "postprocess_data", postprocess_data(exec[s].st, exec[s].request))

StoreResults ==
    \E s \in 1..NumSlots :
        RunNode(s, "store_results", store_results(exec[s].st, exec[s].request))

NotifyCompletion ==
    \E s \in 1..NumSlots :
        RunNode(s, "notify_completion", notify_completion(exec[s].st, exec[s].request))

HandleError ==
    \E s \in 1..NumSlots :
        RunNode(s, "handle_error", handle_error(exec[s].st, exec[s].request))

\* reading a results mapping follows the list references postprocess_data stored
Deref(results, st) ==
    LET Meta(md) == [md EXCEPT !.processing_stages = st.stages_completed,
                               !.warnings = st.warnings]
    IN IF "metadata" \in DOMAIN results THEN [results EXCEPT !.metadata = Meta(@)]
       ELSE IF "key_metrics" \in DOMAIN results THEN [results EXCEPT !.key_metrics = Meta(@)]
       ELSE results

\* the bug of reporting a failed run without its message
BuildResultDropsError(request, st) ==
    IF st.error # None
    THEN ProcessingResult(request.request_id, "failed", EmptyMap,
                          st.stages_completed, None, Some(st.warnings))
    ELSE ProcessingResult(request.request_id, "completed",
                          IF st.processing_results = None THEN EmptyMap
                          ELSE Deref(st.processing_results[1], st),
                          st.stages_completed, None, Some(st.warnings))

\* lines 167-185: the result built once ainvoke has returned
BuildResult(request, st) ==
    IF st.error # None
    THEN ProcessingResult(request.request_id, "failed", [error |-> st.error[1]],
                          st.stages_completed, Some(st.error[1]), Some(st.warnings))
    ELSE ProcessingResult(request.request_id, "completed",
                          IF st.processing_results = None THEN EmptyMap
                          ELSE Deref(st.processing_results[1], st),
                          st.stages_completed, None, Some(st.warnings))

\* lines 196-205: the result built from an exception that escaped ainvoke
ExceptResult(request, st, e) ==
    ProcessingResult(request.request_id, "failed", EmptyMap,
                     st.stages_completed, Some(<<e>>), None)

\* the bug of counting the result without looking at its status
UpdateMetricsIgnoresStatus(metrics, result, active) ==
    [total_processed |-> metrics.total_processed + 1,
     total_failed |-> metrics.total_failed,
     queue_length |-> Cardinality(DOMAIN active)]

\* the bug of counting the queue without the request being recorded
UpdateMetricsAfterPop(metrics, result, active) ==
    [total_processed |-> metrics.total_processed + 1,
     total_failed |-> metrics.total_failed + (IF result.status = "failed" THEN 1 ELSE 0),
     queue_length |-> Cardinality(DOMAIN active \ {result.request_id})]

_update_performance_metrics(metrics, result, active) ==
    [total_processed |-> metrics.total_processed + 1,
     total_failed |-> metrics.total_failed + (IF result.status = "failed" THEN 1 ELSE 0),
     queue_length |-> Cardinality(DOMAIN active)]

\* the bug of leaving the entry behind
DeregisterSkipped(active, id) == active

\* finally: self.active_tasks.pop(request.request_id, None)
Deregister(active, id) == MapPop(active, id)

EndOfCall(s, path, result) ==
    [outcome |-> "returned", path |-> path, request |-> exec[s].request,
     result |-> result, st |-> exec[s].st, trace |-> exec[s].trace,
     errAt |-> exec[s].errAt, firstError |-> exec[s].firstError]

\* lines 163-194 and 206-208: ainvoke returned; nothing here suspends
Finish ==
    \E s \in 1..NumSlots :
        LET request == exec[s].request
            result == BuildResult(request, exec[s].st)
        IN /\ exec[s].pc = END
           /\ completed_tasks' = MapPut(completed_tasks, request.request_id, result)
           /\ performance_metrics' =
                  _update_performance_metrics(performance_metrics, result, active_tasks)
           /\ active_tasks' = Deregister(active_tasks, request.request_id)
           /\ exec' = [exec EXCEPT ![s] = IdleExec]
           /\ last' = EndOfCall(s, "normal", result)
           /\ returned' = returned + 1
           /\ recorded' = Append(recorded, result.status)
           /\ statuses' = Append(statuses, result.status)
           /\ UNCHANGED <<calls, submitted, callers>>
           /\ UNCHANGED <<sanitizerVars, overseerVars>>

\* line 161 raises (the driver fails between two nodes or on its way out),
\* then lines 196-208: the handler returns a result of its own
FinishExcept ==
    \E s \in 1..NumSlots :
        LET request == exec[s].request
            result == ExceptResult(request, exec[s].st, DriverFailure)
        IN /\ exec[s].pc \in Nodes \cup {END}
           /\ active_tasks' = Deregister(active_tasks, request.request_id)
           /\ exec' = [exec EXCEPT ![s] = IdleExec]
           /\ last' = EndOfCall(s, "except", result)
           /\ returned' = returned + 1
           /\ statuses' = Append(statuses, result.status)
           /\ UNCHANGED <<completed_tasks, performance_metrics, calls, submitted,
                          recorded, callers>>
           /\ UNCHANGED <<sanitizerVars, overseerVars>>

\* ---------------------------------------------------------- get_task_status
\* the bug of looking among the completed tasks first
get_task_status_completed_first(request_id) ==
    IF request_id \in DOMAIN completed_tasks
    THEN LET result == completed_tasks[request_id]
         IN Some([request_id |-> request_id, status |-> result.status,
                  current_stage |-> "",
                  stages_completed |-> result.stages_completed,
                  warnings |-> IF result.warnings = None THEN << >>
                               ELSE result.warnings[1]])
    ELSE IF request_id \in DOMAIN active_tasks
    THEN LET task_state == exec[active_tasks[request_id]].st
         IN Some([request_id |-> request_id, status |-> "processing",
                  current_stage |-> task_state.current_stage,
                  stages_completed |-> task_state.stages_completed,
                  warnings |-> task_state.warnings])
    ELSE None

\* None, or the status mapping; processing_time is a wall-clock duration
get_task_status(request_id) ==
    IF request_id \in DOMAIN active_tasks
    THEN LET task_state == exec[active_tasks[request_id]].st
         IN Some([request_id |-> request_id, status |-> "processing",
                  current_stage |-> task_state.current_stage,
                  stages_completed |-> task_state.stages_completed,
                  warnings |-> task_state.warnings])
    ELSE IF request_id \in DOMAIN completed_tasks
    THEN LET result == completed_tasks[request_id]
         IN Some([request_id |-> request_id, status |-> result.status,
                  current_stage |-> "",
                  stages_completed |-> result.stages_completed,
                  warnings |-> IF result.warnings = None THEN << >>
                               ELSE result.warnings[1]])
    ELSE None

\* a quotient is the pair <<numerator, denominator>>; 1.0 is <<1, 1>>
_calculate_success_rate(metrics) ==
    LET total == metrics.total_processed
        failed == metrics.total_failed
    IN IF total = 0 THEN <<1, 1>> ELSE <<total - failed, total>>

get_queue_status ==
    [active_tasks |-> Cardinality(DOMAIN active_tasks),
     queue_length |-> performance_metrics.queue_length,
     total_processed |-> performance_metrics.total_processed,
     success_rate |-> _calculate_success_rate(performance_metrics)]

\* ------------------------------------------------------------ specifications
Next ==
    \/ CallRaises
    \/ Call
    \/ ValidateInput
    \/ PreprocessData
    \/ ProcessData
    \/ PostprocessData
    \/ StoreResults
    \/ NotifyCompletion
    \/ HandleError
    \/ Finish
    \/ FinishExcept

Spec == Init /\ [][Next]_vars

SpecSingle == InitSingle /\ [][Next]_vars

\* the event loop resumes a workflow that can go on (no node waits for
\* anything), and process_request goes on once ainvoke has returned
SpecSingleFair ==
    InitSingle /\ [][Next]_vars
        /\ WF_vars(ValidateInput \/ PreprocessData \/ ProcessData \/ PostprocessData
                      \/ StoreResults \/ NotifyCompletion \/ HandleError \/ Finish)

\* ------------------------------------------------ _sanitize_data on its own
\* Texts are concatenations of at most MaxTokens tokens; the tokens are the
\* denylisted patterns, the pieces they split into and a neutral character.
MaxTokens == 3
\* Number of successive applications of _sanitize_data to one payload.
MaxApplications == 2

Tokens ==
    { <<"x">>, <<"<">>, <<"/">>,
      <<"<", "s", "c", "r">>, <<"i", "p", "t", ">">>,
      <<"s", "c", "r", "i", "p", "t", ">">>,
      ScriptOpen, ScriptClose,
      <<"D", "R", "O", "P", " ">>, <<"T", "A", "B", "L", "E">>, DropTable,
      <<"D", "E", "L", "E", "T", "E">>, <<" ", "F", "R", "O", "M">>, DeleteFrom }

RECURSIVE Texts(_)
Texts(n) ==
    IF n = 0 THEN { << >> }
    ELSE LET shorter == Texts(n - 1)
         IN shorter \cup { t \o w : t \in Tokens, w \in shorter }

\* a string value at the top level, or inside a nested mapping
SanitizerPayloads(texts) ==
    { OnePayload(StrV(w)) : w \in texts }
        \cup { OnePayload(DictV([k \in {"b"} |-> StrV(w)])) : w \in texts }

InitSanitizer ==
    /\ InitShared
    /\ callers = "none"
    /\ payload \in SanitizerPayloads(Texts(MaxTokens))
    /\ sanitized = << >>
    /\ OverseerNew
    /\ response = << >>

\* _sanitize_data applied to the payload, then to its own result
SanitizeData ==
    /\ Len(sanitized) < MaxApplications
    /\ sanitized' = Append(sanitized,
                           _sanitize_data(IF sanitized = << >> THEN payload
                                          ELSE sanitized[Len(sanitized)]))
    /\ UNCHANGED <<payload, agentVars, overseerVars>>

NextSanitizer == SanitizeData

SpecSanitizer == InitSanitizer /\ [][NextSanitizer]_vars

\* ------------------------------------------- the overseer's delegations
\* (src/backend/kings_court/overseer.py)
\* Number of delegate_task calls in one behaviour.
MaxDelegations == 2
\* Number of changes a caller makes to a list it holds.
MaxMutations == 1

AgentTypes == {"serf", "peasant", "knight"}
\* len(task_description); the description is the text 'x' * length
DescriptionLengths == {200, 201, 500, 501, 600}

\* the arguments of delegate_task: every agent type with every length under
\* the defaults of line 160, and one call that gives priority and context
DelegationCalls ==
    { [agent_type |-> a, length |-> n, priority |-> 3, context |-> None] :
        a \in AgentTypes, n \in DescriptionLengths }
        \cup { [agent_type |-> "peasant", length |-> 0, priority |-> 5,
                context |-> Some(OneMeta("k", "v"))] }

DigitChar == <<"0", "1", "2", "3", "4", "5", "6", "7", "8", "9">>

\* str(i) of a non-negative integer
RECURSIVE IntStr(_)
IntStr(i) ==
    IF i < 10 THEN <<DigitChar[i + 1]>>
    ELSE IntStr(i \div 10) \o <<DigitChar[(i % 10) + 1]>>

\* the bug of putting the lengths 200 and 500 in the upper band
EstimateWithInclusiveBands(task_description, agent_type) ==
    LET task_length == task_description.n
        base_time == IF agent_type = "serf" THEN 5 ELSE 10
        multiplier == IF task_length >= 500 THEN 3
                      ELSE IF task_length >= 200 THEN 2
                      ELSE 1
    IN IntStr(base_time * multiplier) \o <<" minutes">>

_estimate_completion_time(task_description, agent_type) ==
    LET task_length == task_description.n
        base_time == IF agent_type = "serf" THEN 5 ELSE 10
        multiplier == IF task_length > 500 THEN 3
                      ELSE IF task_length > 200 THEN 2
                      ELSE 1
        estimated_minutes == base_time * multiplier
    IN IntStr(estimated_minutes) \o <<" minutes">>

\* lines 173-183; delegation_id and timestamp are readings of the clock
Delegation(agent_type, task_description, priority, context) ==
    [agent_type |-> agent_type, task |-> task_description,
     priority |-> priority,
     context |-> IF context = None THEN EmptyMap ELSE context[1],
     delegated_by |-> "King AI Overseer", status |-> "pending",
     expected_completion |-> _estimate_completion_time(task_description, agent_type)]

Answer(op, outcome, value) == [op |-> op, outcome |-> outcome, value |-> value]

\* a delegate_task that puts its record at the front of the history
DelegateTaskPrepends ==
    /\ Len(delegated) < MaxDelegations
    /\ \E call \in {[agent_type |-> "serf", length |-> 600, priority |-> 3,
                      context |-> None]} :
          LET delegation == Delegation(call.agent_type, PadV(call.length),
                                       call.priority, call.context)
          IN /\ delegation_history' = <<delegation>> \o delegation_history
             /\ delegated' = Append(delegated, delegation)
             /\ answer' = Some(Answer("delegate_task", "returned", delegation))
    /\ UNCHANGED <<held, active_strategies, response, agentVars, sanitizerVars>>

\* the calls made where every operation of the overseer is in use
CourtCalls ==
    { [agent_type |-> "serf", length |-> 600, priority |-> 3, context |-> None],
      [agent_type |-> "peasant", length |-> 0, priority |-> 5,
       context |-> Some(OneMeta("k", "v"))] }

delegationCalls == IF callers = "court" THEN CourtCalls ELSE DelegationCalls

DelegateTask ==
    /\ Len(delegated) < MaxDelegations
    /\ \E call \in delegationCalls :
          LET delegation == Delegation(call.agent_type, PadV(call.length),
                                       call.priority, call.context)
          IN /\ delegation_history' = Append(delegation_history, delegation)
             /\ delegated' = Append(delegated, delegation)
             /\ answer' = Some(Answer("delegate_task", "returned", delegation))
    /\ UNCHANGED <<held, active_strategies, response, agentVars, sanitizerVars>>

\* the bug of handing out the overseer's own list
get_delegation_history_without_copy ==
    [own |-> TRUE, items |-> delegation_history, mutations |-> 0]

\* a list object: own tells whether it is the overseer's delegation_history
\* itself, mutations counts the changes its holder made to it
get_delegation_history ==
    [own |-> FALSE, items |-> delegation_history, mutations |-> 0]

\* a caller asks for the history and keeps the list, or drops it
GetDelegationHistory ==
    /\ \E keep \in BOOLEAN :
          held' = IF keep THEN Some(get_delegation_history) ELSE held
    /\ answer' = Some([op |-> "get_delegation_history", outcome |-> "returned",
                       value |-> get_delegation_history.items,
                       after |-> IF held = None THEN 0 ELSE held[1].mutations])
    /\ UNCHANGED <<delegation_history, delegated, active_strategies, response,
                   agentVars, sanitizerVars>>

Reverse(list) == [i \in 1..Len(list) |-> list[Len(list) + 1 - i]]

\* list.append(x), list.pop(0) and list.reverse() on a list
ListMutations(list) ==
    { Append(list, Delegation("serf", PadV(0), 1, None)), Reverse(list) }
        \cup (IF list = << >> THEN {} ELSE { Tail(list) })

\* the holder of a list changes it in place
MutateHeldList ==
    /\ held # None
    /\ held[1].mutations < MaxMutations
    /\ \E changed \in ListMutations(held[1].items) :
          /\ held' = Some([held[1] EXCEPT !.items = changed,
                                          !.mutations = @ + 1])
          /\ delegation_history' = IF held[1].own THEN changed
                                   ELSE delegation_history
    /\ UNCHANGED <<delegated, active_strategies, response, answer, agentVars,
                   sanitizerVars>>

InitDelegation ==
    /\ InitShared
    /\ callers = "none"
    /\ SanitizerIdle
    /\ OverseerNew
    /\ response = << >>

NextDelegation ==
    \/ DelegateTask
    \/ GetDelegationHistory
    \/ MutateHeldList

SpecDelegation == InitDelegation /\ [][NextDelegation]_vars

\* --------------------------------------------- the overseer's strategies
\* Number of tokens of a model response.
MaxResponseTokens == 4
\* Number of strategize calls in one behaviour.
MaxStrategies == 1

NoneV == [t |-> "NoneType", n |-> 0, s |-> << >>, m |-> EmptyMap]
ListV(items) == [t |-> "list", n |-> 0, s |-> items, m |-> EmptyMap]

\* A response is a sequence of tokens: braces, commas, keys with their colon,
\* JSON scalars, the empty list, prose and the newline.
KeyNames ==
    [k \in {"\"objective\":", "\"task_breakdown\":"} |->
        IF k = "\"objective\":" THEN "objective" ELSE "task_breakdown"]

\* "[task]" is a list of one task object with agent_type 'serf', a
\* description of 300 characters and priority 2; "[task,{}]" is that task
\* followed by an empty object, "[{}]" the empty object alone
Scalars ==
    [k \in {"null", "7", "\"s\"", "[]", "[task]", "[task,{}]", "[{}]"} |->
        LET task == DictV([f \in {"agent_type", "description", "priority"} |->
                             CASE f = "agent_type" -> StrV(<<"serf">>)
                               [] f = "description" -> PadV(300)
                               [] f = "priority" -> IntV(2)])
        IN CASE k = "null" -> NoneV
             [] k = "7" -> IntV(7)
             [] k = "\"s\"" -> StrV(<<"s">>)
             [] k = "[]" -> ListV(<< >>)
             [] k = "[task]" -> ListV(<<task>>)
             [] k = "[task,{}]" -> ListV(<<task, DictV(EmptyMap)>>)
             [] k = "[{}]" -> ListV(<<DictV(EmptyMap)>>)]

ResponseTokens ==
    {"{", "}", ",", "prose", "\n", "null", "7", "\"s\"", "[]"} \cup DOMAIN KeyNames

RECURSIVE Sentences(_)
Sentences(n) ==
    IF n = 0 THEN { << >> }
    ELSE LET shorter == Sentences(n - 1)
         IN shorter \cup { <<t>> \o w : t \in ResponseTokens, w \in shorter }

Objectives == { StrV(<<"expand the realm">>) }

\* result.replace('\n', ' ')
ReplaceNewlines(text) == [i \in 1..Len(text) |-> IF text[i] = "\n" THEN " " ELSE text[i]]

\* re.search(r'\{.*\}', text, re.DOTALL): from the first '{' to the last '}'
re_search(text) ==
    LET opens == { i \in 1..Len(text) : text[i] = "{" }
        first == CHOOSE i \in opens : \A j \in opens : i <= j
        closes == { i \in 1..Len(text) : text[i] = "}" /\ i > first }
        last_close == CHOOSE i \in closes : \A j \in closes : j <= i
    IN IF opens = {} \/ closes = {} THEN None
       ELSE Some(SubSeq(text, first, last_close))

\* json.loads: whitespace between tokens is skipped, a later duplicate key wins
ParseFailed == [ok |-> FALSE, v |-> NoneV, next |-> 0]
Parsed(v, next) == [ok |-> TRUE, v |-> v, next |-> next]

RECURSIVE ParseValue(_, _), ParseMembers(_, _, _)
ParseValue(toks, i) ==
    IF i > Len(toks) THEN ParseFailed
    ELSE IF toks[i] \in DOMAIN Scalars THEN Parsed(Scalars[toks[i]], i + 1)
    ELSE IF toks[i] = "{"
    THEN IF i + 1 <= Len(toks) /\ toks[i + 1] = "}"
         THEN Parsed(DictV(EmptyMap), i + 2)
         ELSE ParseMembers(toks, i + 1, EmptyMap)
    ELSE ParseFailed

ParseMembers(toks, i, members) ==
    IF i > Len(toks) \/ toks[i] \notin DOMAIN KeyNames THEN ParseFailed
    ELSE LET item == ParseValue(toks, i + 1)
             added == MapPut(members, KeyNames[toks[i]], item.v)
         IN IF ~item.ok \/ item.next > Len(toks) THEN ParseFailed
            ELSE IF toks[item.next] = "}" THEN Parsed(DictV(added), item.next + 1)
            ELSE IF toks[item.next] = "," THEN ParseMembers(toks, item.next + 1, added)
            ELSE ParseFailed

json_loads(text) ==
    LET toks == SelectSeq(text, LAMBDA t : t # " " /\ t # "\n")
        top == ParseValue(toks, 1)
    IN IF top.ok /\ top.next = Len(toks) + 1 THEN Returned(top.v)
       ELSE Raised("JSONDecodeError")

StrategicPlan(objective, approach, resource_requirements, task_breakdown, success_metrics, timeline, risk_assessment) ==
    [objective |-> objective, approach |-> approach,
     resource_requirements |-> resource_requirements,
     task_breakdown |-> task_breakdown, success_metrics |-> success_metrics,
     timeline |-> timeline, risk_assessment |-> risk_assessment]

\* a text fallback that leaves the approach empty
ParseTextStrategyWithoutApproach(text) ==
    [k \in {"objective", "approach", "resource_requirements", "task_breakdown",
            "success_metrics", "risk_assessment"} |->
        CASE k = "objective" -> StrV(<<"Parsed from text">>)
          [] k = "approach" -> StrV(<< >>)
          [] k \in {"resource_requirements", "risk_assessment"} -> DictV(EmptyMap)
          [] OTHER -> ListV(<< >>)]

_parse_text_strategy(text) ==
    [k \in {"objective", "approach", "resource_requirements", "task_breakdown",
            "success_metrics", "risk_assessment"} |->
        CASE k = "objective" -> StrV(<<"Parsed from text">>)
          [] k = "approach" -> StrV(text)
          [] k \in {"resource_requirements", "risk_assessment"} -> DictV(EmptyMap)
          [] OTHER -> ListV(<< >>)]

_parse_strategy_result(result, objective) ==
    LET json_match == re_search(ReplaceNewlines(result))
        loaded == IF json_match = None THEN Returned(DictV(_parse_text_strategy(result)))
                  ELSE json_loads(json_match[1])
        strategy_data == loaded.value.m
    IN IF loaded.exc = None
       THEN StrategicPlan(MetaGet(strategy_data, "objective", objective),
                          MetaGet(strategy_data, "approach", StrV(<< >>)),
                          MetaGet(strategy_data, "resource_requirements", DictV(EmptyMap)),
                          MetaGet(strategy_data, "task_breakdown", ListV(<< >>)),
                          MetaGet(strategy_data, "success_metrics", ListV(<< >>)),
                          MetaGet(strategy_data, "timeline", StrV(<<"Not specified">>)),
                          MetaGet(strategy_data, "risk_assessment", DictV(EmptyMap)))
       ELSE StrategicPlan(objective, StrV(result), DictV(EmptyMap), ListV(<< >>),
                          ListV(<< >>), StrV(<<"To be determined">>), DictV(EmptyMap))

\* len(x) is defined for str, list and dict, and raises TypeError otherwise
HasLen(v) == v.t \in {"str", "list", "dict"}
NoLen(v) == <<"object of type '", v.t, "' has no len()">>

\* lines 149-157: the plan is stored, then its tasks are counted for the log
Strategize ==
    /\ Len(active_strategies) < MaxStrategies
    /\ \E objective \in Objectives :
          LET strategy == _parse_strategy_result(response, objective)
          IN /\ active_strategies' = Append(active_strategies, strategy)
             /\ answer' = Some(IF HasLen(strategy.task_breakdown)
                               THEN Answer("strategize", "returned", strategy)
                               ELSE Answer("strategize", "raised",
                                           [error |-> NoLen(strategy.task_breakdown)]))
    /\ UNCHANGED <<delegation_history, delegated, held, response, agentVars,
                   sanitizerVars>>

InitStrategy ==
    /\ InitShared
    /\ callers = "none"
    /\ SanitizerIdle
    /\ OverseerNew
    /\ response \in Sentences(MaxResponseTokens)

NextStrategy == Strategize

SpecStrategy == InitStrategy /\ [][NextStrategy]_vars

\* ------------------------------------------ coordinate_multi_agent_task
\* lines 269-280: one delegate_task per element of task_breakdown, up to the
\* first element that is no mapping with the three keys read (iterating a
\* str gives its characters, iterating a dict its keys: indexing either by
\* 'agent_type' raises).  The descriptions of the model's tasks are str.
RECURSIVE DelegateAll(_)
DelegateAll(tasks) ==
    LET task == Head(tasks)
        rest == DelegateAll(Tail(tasks))
        context == [coordination_id |-> "coord", dependencies |-> "[]",
                    expected_output |-> ""]
    IN IF tasks = << >> THEN [done |-> << >>, exc |-> None]
       ELSE IF task.t # "dict" THEN [done |-> << >>, exc |-> Some("TypeError")]
       ELSE IF ~({"agent_type", "description", "priority"} \subseteq DOMAIN task.m)
       THEN [done |-> << >>, exc |-> Some("KeyError")]
       ELSE [done |-> <<Delegation(task.m.agent_type.s[1], task.m.description,
                                   task.m.priority.n, Some(context))>> \o rest.done,
             exc |-> rest.exc]

\* the responses that exercise the loop over task_breakdown
CoordinationResponses ==
    { <<"{", "\"task_breakdown\":", t, "}">> :
        t \in {"[task]", "[task,{}]", "[{}]", "[]", "null", "\"s\""} }
        \cup { <<"prose">> }

\* strategize, then the loop; nothing in either suspends
CoordinateMultiAgentTask ==
    /\ Len(active_strategies) < MaxStrategies
    /\ Len(delegated) < MaxDelegations
    /\ \E complex_objective \in Objectives :
          LET strategy == _parse_strategy_result(response, complex_objective)
              breakdown == strategy.task_breakdown
              items == IF breakdown.t = "list" THEN breakdown.s
                       ELSE IF breakdown.t = "str"
                       THEN [i \in 1..Len(breakdown.s) |-> StrV(<<breakdown.s[i]>>)]
                       ELSE [i \in 1..Cardinality(DOMAIN breakdown.m) |-> StrV(<<"key">>)]
              loop == IF HasLen(breakdown) THEN DelegateAll(items)
                      ELSE [done |-> << >>, exc |-> Some("TypeError")]
          IN /\ active_strategies' = Append(active_strategies, strategy)
             /\ delegation_history' = delegation_history \o loop.done
             /\ delegated' = delegated \o loop.done
             /\ answer' = Some(Answer("coordinate_multi_agent_task",
                                      IF loop.exc = None THEN "returned" ELSE "raised",
                                      [delegated_tasks |-> loop.done]))
    /\ UNCHANGED <<held, response, agentVars, sanitizerVars>>

InitOverseer ==
    /\ InitShared
    /\ callers = "court"
    /\ SanitizerIdle
    /\ OverseerNew
    /\ response \in CoordinationResponses

NextOverseer ==
    \/ DelegateTask
    \/ GetDelegationHistory
    \/ MutateHeldList
    \/ Strategize
    \/ CoordinateMultiAgentTask

SpecOverseer == InitOverseer /\ [][NextOverseer]_vars

TypeOK ==
    /\ DOMAIN active_tasks \subseteq RequestIds
    /\ DOMAIN completed_tasks \subseteq RequestIds
    /\ calls \in 0..budget
    /\ returned \in 0..calls

\* ------------------------------------------------------------------ claims
Quiescent == \A s \in 1..NumSlots : ~InFlight(s)
IdInFlight(id) == \E s \in 1..NumSlots : InFlight(s) /\ exec[s].request.request_id = id
IsPrefix(a, b) == Len(a) <= Len(b) /\ a = SubSeq(b, 1, Len(a))
Ended == last.outcome = "returned"
\* the call ended with ainvoke returning (lines 163-194), not with line 196
EndedNormally == Ended /\ last.path = "normal"

\* C1: no call of process_request ends with an exception raised to its
\* caller, whatever the request (a payload of None included) and whatever
\* fails inside a stage or inside the driver.
C1_NeverRaises == last.outcome # "raised"

\* C2: once every call made has ended, total_processed equals the number of
\* calls that returned a result, whichever way they returned.
C2_MetricsOncePerRun ==
    Quiescent => performance_metrics.total_processed = returned

\* C3: after a call for id r returned R and while no execution for r is in
\* flight, completed_tasks[r] is R and get_task_status(r) reports R's status;
\* get_task_status answers None only for ids no call was made with.
C3_CompletedTaskStored ==
    /\ (Ended /\ ~IdInFlight(last.request.request_id)) =>
          /\ last.request.request_id \in DOMAIN completed_tasks
          /\ completed_tasks[last.request.request_id] = last.result
          /\ get_task_status(last.request.request_id) # None
          /\ get_task_status(last.request.request_id)[1].status = last.result.status
    /\ \A id \in RequestIds : get_task_status(id) = None => id \notin submitted

\* C4: whenever no execution of process_request is in flight, active_tasks
\* is empty, for every interleaving and every way the executions ended.
C4_NoActiveTaskWhenQuiescent == Quiescent => active_tasks = EmptyMap

\* C4 witness: two calls have ended, the last through the exception handler
\* and an earlier one normally, and nothing is in flight.
C4_Witness ==
    /\ Quiescent
    /\ returned = 2
    /\ last.path = "except"
    /\ completed_tasks # EmptyMap
    /\ active_tasks = EmptyMap

\* C5: in every run, the node run right after the one that set state.error
\* is handle_error and it is the last node of the run; notify_completion
\* never runs, and is never about to run, in a state whose error is set.
C5_ErrorGoesToHandleError ==
    \A s \in 1..NumSlots :
        LET e == exec[s]
        IN /\ (e.errAt # 0 /\ Len(e.trace) > e.errAt) =>
                 /\ e.trace[e.errAt + 1] = "handle_error"
                 /\ Len(e.trace) = e.errAt + 1
           /\ e.pc = "notify_completion" => e.st.error = None

\* C6: when a run ends, stages_completed is a prefix of the six stage names
\* in pipeline order (so it has no duplicate and skips nothing), and it is
\* all six of them when the result's status is Completed.
C6_StagesArePrefix ==
    Ended =>
        /\ IsPrefix(last.result.stages_completed, Stages)
        /\ last.result.status = "completed" => last.result.stages_completed = Stages

\* C6 witness: a run that ended Completed, and the six stages are recorded.
C6_Witness ==
    /\ Ended
    /\ last.result.status = "completed"
    /\ last.result.stages_completed = Stages

\* C7: a run on an empty mapping, whose driver returns, has is_valid false,
\* a Failed result with the message "Validation failed: No data provided",
\* stages_completed = ["validation"], and ran validate_input then
\* handle_error and nothing else; this for every request type and metadata.
C7_EmptyPayloadFailsValidation ==
    (EndedNormally /\ last.request.data = EmptyMap) =>
        /\ last.st.validation_results # None
        /\ last.st.validation_results[1].is_valid = FALSE
        /\ last.result.status = "failed"
        /\ last.result.error_message = Some(<<"Validation failed: ", "No data provided">>)
        /\ last.result.stages_completed = <<"validation">>
        /\ last.trace = <<"validate_input", "handle_error">>

\* C7 witness: such a run has ended, here with a request type that also
\* draws a warning and with metadata present.
C7_Witness ==
    /\ EndedNormally
    /\ last.request.data = EmptyMap
    /\ last.request.request_type = "custom"
    /\ last.request.metadata # EmptyMap
    /\ last.result.status = "failed"

\* the request types and sub-modes the specification names
NamedModes ==
    { <<"data_analysis", EmptyMap>>,
      <<"data_analysis", OneMeta("analysis_type", "basic")>>,
      <<"data_analysis", OneMeta("analysis_type", "statistical")>>,
      <<"data_analysis", OneMeta("analysis_type", "trend")>>,
      <<"data_transformation", OneMeta("transformation_type", "normalize")>>,
      <<"data_transformation", OneMeta("transformation_type", "aggregate")>>,
      <<"data_transformation", OneMeta("transformation_type", "filter")>>,
      <<"computation", EmptyMap>>,
      <<"computation", OneMeta("computation_type", "basic")>>,
      <<"computation", OneMeta("computation_type", "mathematical")>>,
      <<"computation", OneMeta("computation_type", "optimization")>>,
      <<"integration", EmptyMap>> }

\* C8: a run on the well-formed payload {"a": 4, "b": 16}, of a supported
\* request type in a sub-mode the specification names, whose driver
\* returns, ends Completed with all six stages recorded.
C8_NamedModesComplete ==
    (/\ EndedNormally
     /\ last.request.data = NumericPayload
     /\ <<last.request.request_type, last.request.metadata>> \in NamedModes) =>
        /\ last.result.status = "completed"
        /\ last.result.stages_completed = Stages

\* the result lines 167-185 are meant to build from the final state
ResultOfState(c) ==
    IF c.st.error # None
    THEN /\ c.result.status = "failed"
         /\ c.result.result_data = [error |-> c.st.error[1]]
         /\ c.result.error_message = c.st.error
         /\ c.st.error = c.firstError
    ELSE /\ c.result.status = "completed"
         /\ c.result.error_message = None
         /\ c.st.processing_results # None
         /\ c.result.result_data = Deref(c.st.processing_results[1], c.st)
         /\ c.firstError = None

\* C9 as stated: every returned result is Failed with {error: m} and message
\* m, m the message of the first stage that failed, when state.error is set
\* at the end of the run, and Completed with the final processing_results
\* and no message when it is not.
C9_ResultFollowsErrorField == Ended => ResultOfState(last)

\* C9 amended: that holds of every result returned after the driver
\* returned; a result returned from an exception that escaped the driver is
\* Failed with an empty result_data and the exception's message, whether or
\* not state.error is set.  No result has another status.
C9_ResultFollowsErrorFieldOrException ==
    /\ EndedNormally => ResultOfState(last)
    /\ (Ended /\ last.path = "except") =>
          /\ last.result.status = "failed"
          /\ last.result.result_data = EmptyMap
          /\ last.result.error_message = Some(<<DriverFailure>>)
    /\ Ended => last.result.status \in {"completed", "failed"}

\* C9 witness: a run ended normally after a stage later than validation set
\* state.error, and the result carries that stage's message.
C9_Witness ==
    /\ EndedNormally
    /\ last.errAt > 1
    /\ last.result.status = "failed"
    /\ last.result.result_data = [error |-> last.firstError[1]]

\* C10: a run on a non-empty payload with well-formed metadata, whose
\* validation produced warnings and no error and whose driver returns, has
\* is_valid true, holds every warning its request calls for in its
\* validation result, and ends Completed.
C10_WarningsNeverBlock ==
    (/\ EndedNormally
     /\ last.request.data # EmptyMap
     /\ \A k \in DOMAIN last.request.metadata : last.request.metadata[k] # SetObject
     /\ last.st.validation_results # None
     /\ last.st.validation_results[1].errors = << >>
     /\ last.st.validation_results[1].warnings # << >>) =>
        /\ last.st.validation_results[1].is_valid
        /\ (last.request.request_type \notin SupportedTypes =>
              \E i \in 1..Len(last.st.validation_results[1].warnings) :
                  last.st.validation_results[1].warnings[i] = TypeWarning(last.request.request_type))
        /\ (JsonLen(last.request.data) > SizeLimit =>
              \E i \in 1..Len(last.st.validation_results[1].warnings) :
                  last.st.validation_results[1].warnings[i] = SizeWarning)
        /\ last.result.status = "completed"

\* the string values of a mapping, nested mappings included
RECURSIVE StringsOf(_)
StringsOf(data) ==
    UNION { IF data[k].t = "str" THEN { data[k].s }
            ELSE IF data[k].t = "dict" THEN StringsOf(data[k].m)
            ELSE {} : k \in DOMAIN data }

Occurs(pat, str) ==
    \E i \in 1..(Len(str) - Len(pat) + 1) : SubSeq(str, i, i + Len(pat) - 1) = pat

Denylist == { ScriptOpen, ScriptClose, DropTable, DeleteFrom }

\* C11: sanitization is complete and idempotent: no string of a sanitized
\* payload contains '<script>', '</script>', 'DROP TABLE' or 'DELETE FROM',
\* and sanitizing the sanitized payload again gives the same payload.
C11_SanitizeCompleteAndIdempotent ==
    /\ Len(sanitized) >= 1 =>
          \A str \in StringsOf(sanitized[1]) : \A pat \in Denylist : ~Occurs(pat, str)
    /\ Len(sanitized) >= 2 => sanitized[2] = sanitized[1]

RECURSIVE Count(_, _)
Count(seq, x) ==
    IF seq = << >> THEN 0
    ELSE (IF Head(seq) = x THEN 1 ELSE 0) + Count(Tail(seq), x)

\* C12: with N results recorded so far, F of them Failed, total_processed
\* is N and total_failed is F (so 0 <= total_failed <= total_processed), and
\* the success rate of get_queue_status is (N - F) / N, or 1.0 when N is 0.
C12_MetricsCountRecordedResults ==
    LET N == Len(recorded)
        F == Count(recorded, "failed")
        rate == get_queue_status.success_rate
    IN /\ performance_metrics.total_processed = N
       /\ performance_metrics.total_failed = F
       /\ 0 <= performance_metrics.total_failed
       /\ performance_metrics.total_failed <= performance_metrics.total_processed
       /\ get_queue_status.total_processed = N
       /\ IF N = 0 THEN rate = <<1, 1>>
          ELSE rate[2] # 0 /\ rate[1] * N = (N - F) * rate[2]

\* two results recorded, one Completed and one Failed: the rate is 1/2
C12_Witness ==
    /\ recorded = <<"completed", "failed">>
    /\ get_queue_status.success_rate = <<1, 2>>

\* every execution registered so far has returned, and no two shared an id
AllReturnedDistinctIds ==
    /\ Quiescent
    /\ returned >= 1
    /\ Cardinality(submitted) = returned

\* C13: executions with pairwise distinct ids, interleaved at every
\* suspension: once all have returned, total_processed is the number of
\* executions and total_failed the number of results with status Failed.
C13_NoMetricsUpdateLost ==
    AllReturnedDistinctIds =>
        /\ performance_metrics.total_processed = returned
        /\ performance_metrics.total_failed = Count(statuses, "failed")

\* the entry of id r is the state of the execution in slot s, and the status
\* query reports that execution
OwnEntry(s) ==
    LET r == exec[s].request.request_id
    IN /\ r \in DOMAIN active_tasks
       /\ active_tasks[r] = s
       /\ get_task_status(r) =
              Some([request_id |-> r, status |-> "processing",
                    current_stage |-> exec[s].st.current_stage,
                    stages_completed |-> exec[s].st.stages_completed,
                    warnings |-> exec[s].st.warnings])

\* C14: in every interleaving, two executions with the same id included,
\* while an execution for id r is between its registration and its return
\* active_tasks[r] is present and is that execution's own state, and
\* get_task_status(r) reports 'processing' with its stage and stages.
C14_OwnEntryWhileInFlight ==
    \A s \in 1..NumSlots : InFlight(s) => OwnEntry(s)

\* C14 as amended: the same for an execution during which no other
\* execution with the same id is in flight.
C14_OwnEntryWhileIdUnshared ==
    \A s \in 1..NumSlots : (InFlight(s) /\ ~exec[s].shared) => OwnEntry(s)

\* two executions with different ids in flight together, one of them past
\* its first stage, each with its own entry
C14_Witness ==
    /\ InFlight(1) /\ InFlight(2)
    /\ ~exec[1].shared /\ ~exec[2].shared
    /\ exec[1].request.request_id # exec[2].request.request_id
    /\ exec[2].st.stages_completed # << >>
    /\ OwnEntry(1) /\ OwnEntry(2)

Delegated == answer # None /\ answer[1].op = "delegate_task"

\* the texts the claim names, written out
MinutesText ==
    [m \in {5, 10, 15, 20, 30} |->
        CASE m = 5 -> <<"5", " minutes">>
          [] m = 10 -> <<"1", "0", " minutes">>
          [] m = 15 -> <<"1", "5", " minutes">>
          [] m = 20 -> <<"2", "0", " minutes">>
          [] m = 30 -> <<"3", "0", " minutes">>]

\* C15: the estimated completion of a delegation is "<base * mult> minutes",
\* base 5 for 'serf' and 10 for every other agent type, mult 3 for a
\* description longer than 500, 2 for one longer than 200 and at most 500,
\* 1 for one of at most 200.
C15_EstimateByTypeAndLength ==
    Delegated =>
        LET d == answer[1].value
            length == d.task.n
            base == IF d.agent_type = "serf" THEN 5 ELSE 10
            mult == IF length > 500 THEN 3
                    ELSE IF length > 200 /\ length <= 500 THEN 2
                    ELSE 1
        IN d.expected_completion = MinutesText[base * mult]

\* a serf is given a description of 600 characters: "15 minutes"
C15_Witness ==
    /\ Delegated
    /\ answer[1].value.agent_type = "serf"
    /\ answer[1].value.task.n = 600
    /\ answer[1].value.expected_completion = <<"1", "5", " minutes">>

HistoryAnswered == answer # None /\ answer[1].op = "get_delegation_history"

\* C16: whatever a caller did to a list it got from get_delegation_history
\* (append, remove, reorder), every call of get_delegation_history returns
\* the records appended so far, in the order they were appended.
C16_HistoryIsACopy ==
    HistoryAnswered => answer[1].value = delegated

\* a caller holds a list it changed, and a later call still returned the
\* two records appended
C16_Witness ==
    /\ HistoryAnswered
    /\ answer[1].after >= 1
    /\ Len(delegated) = 2
    /\ answer[1].value = delegated
    /\ held[1].items # delegated

\* C17: whatever text the model returns (no brace-delimited block, a block
\* that is not valid JSON, a JSON object with fields missing, null or of an
\* unexpected type), strategize returns a StrategicPlan and never raises.
C17_StrategizeNeverRaises ==
    (answer # None /\ answer[1].op = "strategize") => answer[1].outcome = "returned"

\* the name a stage node records
StageOf(node) ==
    CASE node = "validate_input" -> "validation"
      [] node = "preprocess_data" -> "preprocessing"
      [] node = "process_data" -> "processing"
      [] node = "postprocess_data" -> "postprocessing"
      [] node = "store_results" -> "storage"
      [] node = "notify_completion" -> "notification"
      [] OTHER -> ""

StageNodes == Nodes \ {"handle_error"}

InSeq(x, seq) == \E i \in 1..Len(seq) : seq[i] = x

\* C18: when a run ends, every stage that executed in it has its name in
\* stages_completed, the stage that set state.error included; so the last
\* element of a Failed run's stages_completed is the stage that set the error.
C18_ExecutedStagesRecorded ==
    EndedNormally =>
        /\ \A i \in 1..Len(last.trace) :
              last.trace[i] \in StageNodes =>
                  InSeq(StageOf(last.trace[i]), last.result.stages_completed)
        /\ (last.result.status = "failed" /\ last.errAt # 0) =>
              /\ last.result.stages_completed # << >>
              /\ last.result.stages_completed[Len(last.result.stages_completed)]
                     = StageOf(last.trace[last.errAt])

\* store_results ran and left no storage record, in a run where no stage
\* before it set state.error
StorageFailed ==
    /\ EndedNormally
    /\ InSeq("store_results", last.trace)
    /\ last.st.storage_results = None

\* C19: a run in which store_results fails, no stage before it having
\* failed, ends with state.error unset and with status Completed: the
\* failure is a warning.
C19_StorageFailureIsWarning ==
    StorageFailed =>
        /\ last.st.error = None
        /\ last.result.status = "completed"

\* C21: the validation results say is_valid = false exactly when the payload
\* is empty, and the rules apply independently: an unsupported request kind
\* adds exactly one warning, a serialized payload over 1 MiB adds exactly one
\* warning, neither changes is_valid, and an empty payload has the error
\* "No data provided" whatever the warnings.
C21_ValidationRulesIndependent ==
    \A s \in 1..NumSlots :
        exec[s].st.validation_results # None =>
            LET vr == exec[s].st.validation_results[1]
                request == exec[s].request
                kind == IF request.request_type \in SupportedTypes THEN 0 ELSE 1
                size == IF JsonLen(request.data) > 1024 * 1024 THEN 1 ELSE 0
            IN /\ vr.is_valid = (request.data # EmptyMap)
               /\ vr.errors = IF request.data = EmptyMap
                              THEN <<"No data provided">> ELSE << >>
               /\ Count(vr.warnings,
                        <<"Request type '", request.request_type,
                          "' may not be fully supported">>) = kind
               /\ Count(vr.warnings,
                        <<"Large data payload detected, processing may be slower">>)
                     = size
               /\ Len(vr.warnings) = kind + size

\* an empty payload with an unsupported kind: the error and the kind warning
C21_Witness ==
    /\ exec[1].st.validation_results # None
    /\ exec[1].request.data = EmptyMap
    /\ exec[1].request.request_type = "custom"
    /\ exec[1].st.validation_results[1].errors = <<"No data provided">>
    /\ Len(exec[1].st.validation_results[1].warnings) = 1

\* the metadata postprocess_data wrapped the results in
MetadataOf(results) ==
    IF "metadata" \in DOMAIN results THEN results.metadata ELSE results.key_metrics

\* postprocess_data has just run in slot s and recorded its metadata
Postprocessed(s) ==
    /\ exec[s].pc = "store_results"
    /\ exec[s].st.processing_results # None

\* C22: the data_quality_score postprocess_data records is
\* max(0, 0.8 - 0.1 * W), W being the number of warnings accumulated so far in
\* the run, those of validation included; it lies in [0, 1].  Scores are in
\* tenths.
C22_ScoreCountsWarnings ==
    \A s \in 1..NumSlots :
        Postprocessed(s) =>
            LET st == exec[s].st
                W == Len(st.warnings) + Len(st.validation_results[1].warnings)
                score == MetadataOf(st.processing_results[1]).data_quality_score
            IN /\ score = (IF 8 - W < 0 THEN 0 ELSE 8 - W)
               /\ 0 <= score /\ score <= 10

\* C23: the processing_stages of the metadata in the final result_data is
\* the snapshot taken when postprocess_data ran, [validation, preprocessing,
\* processing]; the stages appended later do not show in it.
C23_ProcessingStagesSnapshot ==
    (EndedNormally /\ last.result.status = "completed") =>
        MetadataOf(last.result.result_data).processing_stages
            = <<"validation", "preprocessing", "processing">>

\* C24: every step of the overseer keeps the delegation history it starts
\* from as a prefix of the history it ends with, every record of the history
\* is pending and delegated by the King AI Overseer, and a delegate_task
\* step appends exactly the record it returns.
C24_HistoryAppendOnly ==
    [][/\ IsPrefix(delegation_history, delegation_history')
       /\ \A i \in 1..Len(delegation_history') :
             /\ delegation_history'[i].status = "pending"
             /\ delegation_history'[i].delegated_by = "King AI Overseer"
       /\ DelegateTask =>
             /\ answer'[1].op = "delegate_task"
             /\ delegation_history' = Append(delegation_history, answer'[1].value)]_vars

\* a coordination delegated a task after an earlier delegation, and a
\* list the caller holds has been changed since
C24_Witness ==
    /\ answer # None
    /\ answer[1].op = "coordinate_multi_agent_task"
    /\ Len(answer[1].value.delegated_tasks) >= 1
    /\ Len(delegation_history) >= 2
    /\ held # None
    /\ held[1].mutations >= 1

\* the response has no text between braces
NoBraceBlock == re_search(ReplaceNewlines(response)) = None
\* the text between the first '{' and the last '}' is not valid JSON
InvalidJsonBlock ==
    /\ ~NoBraceBlock
    /\ json_loads(re_search(ReplaceNewlines(response))[1]).exc # None
StrategizeAnswered == answer # None /\ answer[1].op = "strategize"

\* C25: when the response has no brace-delimited text, or its brace-delimited
\* block is not valid JSON, strategize returns a plan whose approach is the
\* whole response text (newlines kept) and whose resource_requirements,
\* task_breakdown, success_metrics and risk_assessment are empty.
C25_DegradedPlanIsFreeText ==
    (StrategizeAnswered /\ (NoBraceBlock \/ InvalidJsonBlock)) =>
        /\ answer[1].outcome = "returned"
        /\ answer[1].value.approach = StrV(response)
        /\ answer[1].value.resource_requirements = DictV(EmptyMap)
        /\ answer[1].value.task_breakdown = ListV(<< >>)
        /\ answer[1].value.success_metrics = ListV(<< >>)
        /\ answer[1].value.risk_assessment = DictV(EmptyMap)

\* a response of prose over two lines, with no brace in it, was answered
C25_Witness ==
    /\ StrategizeAnswered
    /\ NoBraceBlock
    /\ \E i \in 1..Len(response) : response[i] = "\n"
    /\ \E i \in 1..Len(response) : response[i] = "prose"
    /\ answer[1].value.approach = StrV(response)

\* C30: when the response supplies no 'objective' field (no brace-delimited
\* text, an invalid block, or an object without that key), the plan
\* strategize returns has the caller's objective.
C30_ObjectiveIsCallers ==
    (/\ StrategizeAnswered
     /\ answer[1].outcome = "returned"
     /\ \/ NoBraceBlock
        \/ InvalidJsonBlock
        \/ "objective" \notin
              DOMAIN json_loads(re_search(ReplaceNewlines(response))[1]).value.m) =>
        answer[1].value.objective \in Objectives

\* the place of a node in the pipeline, handle_error after all stages
PipelineOrder(node) ==
    CASE node = "validate_input" -> 1
      [] node = "preprocess_data" -> 2
      [] node = "process_data" -> 3
      [] node = "postprocess_data" -> 4
      [] node = "store_results" -> 5
      [] node = "notify_completion" -> 6
      [] node = "handle_error" -> 7

\* the nodes run so far: validate_input first, then strictly forward in the
\* pipeline (so no node twice and at most seven); the workflow is at END
\* exactly when the node run last is notify_completion or handle_error
RunWellFormed(trace, pc) ==
    /\ trace # << >> => trace[1] = "validate_input"
    /\ \A i \in 1..(Len(trace) - 1) : PipelineOrder(trace[i]) < PipelineOrder(trace[i + 1])
    /\ Len(trace) <= 7
    /\ pc = END <=> (/\ trace # << >>
                     /\ trace[Len(trace)] \in {"notify_completion", "handle_error"})
    /\ ~(InSeq("notify_completion", trace) /\ InSeq("handle_error", trace))

\* C26: every run of the workflow starts at validate_input, runs each node at
\* most once and in pipeline order, at most seven nodes in all, is at its end
\* exactly after one of notify_completion or handle_error, and every
\* execution in flight comes to its end.
C26_WorkflowTerminates ==
    /\ [](\A s \in 1..NumSlots : InFlight(s) => RunWellFormed(exec[s].trace, exec[s].pc))
    /\ [](EndedNormally => RunWellFormed(last.trace, END))
    /\ \A s \in 1..NumSlots : InFlight(s) ~> ~InFlight(s)

\* a run went through all six stages and returned
C26_Witness ==
    /\ EndedNormally
    /\ Len(last.trace) = 6
    /\ last.trace[6] = "notify_completion"

\* C27: when a run has returned, every warning validate_input produced in it
\* is in the warnings of the ProcessingResult returned and in the warnings
\* get_task_status reports for the request.
C27_ValidationWarningsReported ==
    (EndedNormally /\ last.st.validation_results # None) =>
        \A i \in 1..Len(last.st.validation_results[1].warnings) :
            LET warning == last.st.validation_results[1].warnings[i]
                status == get_task_status(last.request.request_id)
            IN /\ last.result.warnings # None
               /\ InSeq(warning, last.result.warnings[1])
               /\ status # None
               /\ InSeq(warning, status[1].warnings)

\* the step in which the execution of slot s hands its result to the metrics
Records(s) ==
    /\ exec[s].pc = END
    /\ exec'[s].pc = "idle"
    /\ Len(recorded') = Len(recorded) + 1

\* C28 as claimed: whatever the ids of the executions in flight, a metrics
\* update leaves queue_length equal to the number of ids registered at that
\* instant, the id being recorded is one of them, and queue_length is at
\* least 1 from the first update on.
C28_RecordedRequestCounted ==
    [][/\ \A s \in 1..NumSlots :
             Records(s) =>
                 /\ performance_metrics'.queue_length = Cardinality(DOMAIN active_tasks)
                 /\ exec[s].request.request_id \in DOMAIN active_tasks
       /\ performance_metrics'.total_processed >= 1 =>
             performance_metrics'.queue_length >= 1]_vars

\* C28: a metrics update leaves queue_length equal to the number of ids
\* registered at that instant; when no other execution with the same id has
\* been in flight since the recorded one registered, its id is one of them
\* and queue_length is at least 1.
C28_UnsharedRequestCounted ==
    [][\A s \in 1..NumSlots :
          Records(s) =>
              /\ performance_metrics'.queue_length = Cardinality(DOMAIN active_tasks)
              /\ ~exec[s].shared =>
                    /\ exec[s].request.request_id \in DOMAIN active_tasks
                    /\ active_tasks[exec[s].request.request_id] = s
                    /\ performance_metrics'.queue_length >= 1]_vars

\* a result was recorded while two ids were registered, and the other
\* execution is still in flight
C28_Witness ==
    /\ performance_metrics.total_processed >= 1
    /\ performance_metrics.queue_length = 2
    /\ Cardinality(DOMAIN active_tasks) = 1

\* C29: from its registration to its return an execution leaves the request
\* it was called with as it was (payload, nested mappings included), its
\* state's original_data is that payload all along, and the call ends with
\* that request and that original_data, on the normal and the except path.
C29_RequestNeverMutated ==
    [][\A s \in 1..NumSlots :
          InFlight(s) =>
              /\ exec[s].st.original_data = exec[s].request.data
              /\ InFlight(s)' =>
                    /\ exec'[s].request = exec[s].request
                    /\ exec'[s].st.original_data = exec[s].request.data
              /\ ~InFlight(s)' =>
                    /\ last'.request = exec[s].request
                    /\ last'.st.original_data = exec[s].request.data]_vars

\* a run returned for a payload with a nested mapping that sanitizing
\* changes: the sanitized and the processed data differ from the payload
C29_Witness ==
    /\ EndedNormally
    /\ last.request.data = NestedPayload
    /\ last.st.original_data = NestedPayload
    /\ last.st.validation_results # None
    /\ last.st.validation_results[1].sanitized_data # NestedPayload
    /\ last.st.processed_data # None
    /\ last.st.processed_data[1] # NestedPayload

====
